---- MODULE Spec2Model ----
(***************************************************************************)
(* Model of the video-hosting backend: the HTTP handlers that create,      *)
(* delete and read video records, ingest thumbnails and ingest videos      *)
(* (stage, fast-start remux, probe, upload with retry, publish), and the   *)
(* signed-URL resolver.                                                    *)
(*                                                                         *)
(* Strings are sequences of tokens; a token is either the one-character    *)
(* string "," or a chunk of characters that contains no comma, so that     *)
(* strings.Split(s, ",") and fmt.Sprintf are computed on tokens exactly as *)
(* the code computes them on characters.  A *string is a record            *)
(* [nil, s]: nil = TRUE is the nil pointer.                                *)
(*                                                                         *)
(* A handler runs as a sequence of steps, one per access to what the       *)
(* requests share (the metadata store, the disk, the object store); the    *)
(* computation between two accesses belongs to the step of the access      *)
(* before or after it, and every call is entered, in order, in the request *)
(* trace "log".  When a handler returns, its deferred calls run in the     *)
(* same step, and the record of the request moves to "served".             *)
(***************************************************************************)
EXTENDS Integers, Sequences, FiniteSets, TLC

\* ---------------------------------------------------------------- bounds
MaxRequests == 2   \* requests served one after the other in one run
MaxVideos == 1     \* video records ever created
MaxListed == 2     \* video records in the table a listing walks
MaxTemp == 2       \* names os.CreateTemp can pick from
MaxLen == 4        \* length of the stored references tried on the resolver
MaxWidth == 170    \* widths tried on the prober
MaxHeight == 90    \* heights tried on the prober

\* ------------------------------------------------------- program constants
maxRetries == 3
PresignExpiryMinutes == 15

\* the slots that serve requests: two requests can be in flight together
Req == {1, 2}
Users == {"u1", "u2"}
NoUser == "nouser"
Callers == Users \cup {NoUser}
VideoIDs == 1..MaxVideos
BadID == 0
PathIDs == VideoIDs \cup {BadID}

\* cfg.s3Bucket, cfg.s3Region, cfg.port, cfg.assetsRoot: set once at start-up
S3Bucket == <<"tubely-bucket">>
S3Region == <<"us-east-1">>
Port == <<"8091">>
AssetsRoot == <<".", "/", "assets">>

\* error values: strings too; NoErr is the nil error
NoErr == <<>>
Err(what) == <<what>>
\* the error PutObject returns on the n-th attempt: every attempt its own
StoreError(n) == <<"s3 error of attempt ", ToString(n)>>
SeekError == Err("seek failed")
VideoMediaTypes == {"video/mp4", "video/webm"}
ThumbMediaTypes == {"image/jpeg", "image/png", "image/gif"}
\* one size of each class; every size up to MaxWidth x MaxHeight is in WideOutcomes
Dims == {<<1280, 720>>, <<720, 1280>>, <<640, 480>>}

\* ---------------------------------------------------------------- strings
Nil == [nil |-> TRUE, s |-> <<>>]
Ptr(str) == [nil |-> FALSE, s |-> str]

HasComma(s) == \E i \in 1..Len(s) : s[i] = ","
FirstComma(s) == CHOOSE i \in 1..Len(s) : s[i] = "," /\ \A j \in 1..(i-1) : s[j] # ","

RECURSIVE Split(_)
Split(s) ==
  IF ~HasComma(s) THEN <<s>>
  ELSE <<SubSeq(s, 1, FirstComma(s) - 1)>> \o Split(SubSeq(s, FirstComma(s) + 1, Len(s)))

\* the elements of a path: what stands between its separators
HasSlash(p) == \E i \in 1..Len(p) : p[i] = "/"
FirstSlash(p) == CHOOSE i \in 1..Len(p) : p[i] = "/" /\ \A j \in 1..(i-1) : p[j] # "/"

RECURSIVE Elems(_)
Elems(p) ==
  IF ~HasSlash(p) THEN <<p>>
  ELSE <<SubSeq(p, 1, FirstSlash(p) - 1)>> \o Elems(SubSeq(p, FirstSlash(p) + 1, Len(p)))

\* filepath.Clean on the elements: empty and "." elements go, ".." takes the
\* element before it, or stays at the head of a path that is not rooted
RECURSIVE Resolve(_, _, _)
Resolve(elems, acc, rooted) ==
  IF elems = <<>> THEN acc
  ELSE LET e == Head(elems) IN
    IF e = <<>> \/ e = <<".">> THEN Resolve(Tail(elems), acc, rooted)
    ELSE IF e = <<"..">>
      THEN IF acc # <<>> /\ acc[Len(acc)] # <<"..">>
             THEN Resolve(Tail(elems), SubSeq(acc, 1, Len(acc) - 1), rooted)
           ELSE IF rooted THEN Resolve(Tail(elems), acc, rooted)
           ELSE Resolve(Tail(elems), Append(acc, e), rooted)
    ELSE Resolve(Tail(elems), Append(acc, e), rooted)

RECURSIVE Slashed(_)
Slashed(elems) ==
  IF elems = <<>> THEN <<>>
  ELSE IF Len(elems) = 1 THEN elems[1]
  ELSE elems[1] \o <<"/">> \o Slashed(Tail(elems))

\* filepath.Clean: the shortest path naming the same file
Clean(p) ==
  IF p = <<>> THEN <<".">>
  ELSE LET rooted == p[1] = "/"
           out == Resolve(Elems(p), <<>>, rooted)
       IN IF rooted THEN <<"/">> \o Slashed(out)
          ELSE IF out = <<>> THEN <<".">>
          ELSE Slashed(out)

\* filepath.Join of two elements: empty ones are left out, the result is Cleaned
Join(a, b) ==
  IF a = <<>> /\ b = <<>> THEN <<>>
  ELSE IF a = <<>> THEN Clean(b)
  ELSE IF b = <<>> THEN Clean(a)
  ELSE Clean(a \o <<"/">> \o b)

\* fault seeded for C15: a random source that repeats itself
RandomStringFixed(n) == <<"rnd", "0">>

\* base64.RawURLEncoding.EncodeToString of the n-th output of crypto/rand
RandomString(n) == <<"rnd", ToString(n)>>

\* ------------------------------------------------------------------ state
VARIABLES
  db,        \* metadata store: video id -> record
  nextID,    \* next identifier CreateVideo hands out
  clock,     \* time.Now()
  nextRand,  \* next output of crypto/rand
  disk,      \* paths of the files on the local disk
  store,     \* objects in the object store
  req,       \* per request slot: the handler's locals, position and trace
  served,    \* the request that returned last: its locals, trace and response
  budget     \* requests that may still arrive

vars == <<db, nextID, clock, nextRand, disk, store, req, served, budget>>

NoVideo == [id |-> BadID, exists |-> FALSE, owner |-> NoUser, videoURL |-> Nil,
            thumbnailURL |-> Nil, updatedAt |-> 0]

NoResp == [code |-> 0, msg |-> "", err |-> NoErr, video |-> NoVideo, videos |-> <<>>]

Idle == [kind |-> "none", pc |-> "idle", pathID |-> BadID, userID |-> NoUser,
         video |-> NoVideo, loaded |-> FALSE,
         tempName |-> <<>>, processedPath |-> <<>>, removeProcessed |-> FALSE,
         randomString |-> <<>>, fileKey |-> <<>>, filePath |-> <<>>,
         attempt |-> 0, uploadErr |-> NoErr, offset |-> 0, now |-> 0,
         log |-> <<>>, resp |-> NoResp, left |-> {}]

\* one observable call of a handler
Ev(op) == [op |-> op, bucket |-> <<>>, key |-> <<>>, ct |-> "", n |-> 0, ok |-> TRUE,
           err |-> NoErr, streams |-> <<>>]

AddLog(l, e) == [l EXCEPT !.log = Append(@, e)]

\* respondWithError / respondWithJSON followed by return
Respond(l, code, msg, err, video) ==
  [l EXCEPT !.pc = "done",
            !.resp = [code |-> code, msg |-> msg, err |-> err, video |-> video, videos |-> <<>>]]

\* a request arrives and is served on the first slot that serves none
Free(r) == req[r].pc = "idle"
CanStart(r) == Free(r) /\ (\A q \in 1..(r-1) : ~Free(q)) /\ budget > 0

Fresh(kind, path, caller) == [Idle EXCEPT !.kind = kind, !.pathID = path, !.userID = caller]

\* --------------------------------------------------------- object store
\* s3.PresignClient.PresignGetObject as called by generatePresignedURL
PresignedURL(bucket, key, expire) ==
  <<"https://">> \o bucket \o <<".s3.amazonaws.com/">> \o key
    \o <<"?X-Amz-Expires=", ToString(expire * 60)>>

\* fault seeded for C10: Bucket and Key of the GetObjectInput exchanged
generatePresignedURLSwapped(bucket, key, expireTime, signOk) ==
  LET call == [Ev("presign") EXCEPT !.bucket = key, !.key = bucket, !.n = expireTime,
                                    !.ok = signOk]
  IN IF ~signOk
       THEN [url |-> <<>>, err |-> Err("failed to generate presigned URL"), calls |-> <<call>>]
       ELSE [url |-> PresignedURL(key, bucket, expireTime), err |-> NoErr, calls |-> <<call>>]

generatePresignedURL(bucket, key, expireTime, signOk) ==
  LET call == [Ev("presign") EXCEPT !.bucket = bucket, !.key = key, !.n = expireTime,
                                    !.ok = signOk]
  IN IF ~signOk
       THEN [url |-> <<>>, err |-> Err("failed to generate presigned URL"), calls |-> <<call>>]
       ELSE [url |-> PresignedURL(bucket, key, expireTime), err |-> NoErr, calls |-> <<call>>]

\* ------------------------------------------------------ signed-URL resolver
\* fault seeded for C21: the empty reference is not let through
dbVideoToSignedVideoNilOnly(video, signOk) ==
  IF video.videoURL.nil
    THEN [video |-> video, err |-> NoErr, calls |-> <<>>]
  ELSE LET parts == Split(video.videoURL.s) IN
    IF Len(parts) # 2
      THEN [video |-> video, err |-> Err("invalid bucket/key format"), calls |-> <<>>]
    ELSE LET p == generatePresignedURL(parts[1], parts[2], PresignExpiryMinutes, signOk) IN
      IF p.err # NoErr
        THEN [video |-> video, err |-> p.err, calls |-> p.calls]
        ELSE [video |-> [video EXCEPT !.videoURL = Ptr(p.url)], err |-> NoErr, calls |-> p.calls]

dbVideoToSignedVideo(video, signOk) ==
  IF video.videoURL.nil \/ video.videoURL.s = <<>>
    THEN [video |-> video, err |-> NoErr, calls |-> <<>>]
  ELSE LET parts == Split(video.videoURL.s) IN
    IF Len(parts) # 2
      THEN [video |-> video, err |-> Err("invalid bucket/key format"), calls |-> <<>>]
    ELSE LET p == generatePresignedURL(parts[1], parts[2], PresignExpiryMinutes, signOk) IN
      IF p.err # NoErr
        THEN [video |-> video, err |-> p.err, calls |-> p.calls]
        ELSE [video |-> [video EXCEPT !.videoURL = Ptr(p.url)], err |-> NoErr, calls |-> p.calls]

\* ------------------------------------------------------- metadata store
GetVideo(id) == IF id \in VideoIDs /\ db[id].exists THEN db[id] ELSE NoVideo

\* UPDATE of the row with the record's id; no row, no change
UpdateVideo(d, video) ==
  IF video.id \in VideoIDs /\ d[video.id].exists
    THEN [d EXCEPT ![video.id] = video]
    ELSE d

\* ----------------------------------------------------------- media tools
\* fault seeded for C16: the boundaries of the two ranges left out
categorizeAspectRatioStrict(width, height) ==
  IF (IF 90 * width < 160 * height THEN 160 * height - 90 * width
                                   ELSE 90 * width - 160 * height) < 9 * height
    THEN "landscape"
  ELSE IF (IF 80 * width < 45 * height THEN 45 * height - 80 * width
                                       ELSE 80 * width - 45 * height) < 8 * height
    THEN "portrait"
  ELSE "other"

\* categorizeAspectRatio: |w/h - 16/9| <= 0.1, then |w/h - 9/16| <= 0.1,
\* multiplied out for height > 0: |90w - 160h| <= 9h, then |80w - 45h| <= 8h
Abs(x) == IF x < 0 THEN -x ELSE x
categorizeAspectRatio(width, height) ==
  IF Abs(90 * width - 160 * height) <= 9 * height THEN "landscape"
  ELSE IF Abs(80 * width - 45 * height) <= 8 * height THEN "portrait"
  ELSE "other"

\* getVideoAspectRatio after ffprobe ran and its output parsed:
\* streams is the sequence of <<width, height>> it reported
getVideoAspectRatio(streams) ==
  IF Len(streams) = 0 THEN "other"
  ELSE IF streams[1][1] = 0 \/ streams[1][2] = 0 THEN "other"
  ELSE categorizeAspectRatio(streams[1][1], streams[1][2])

TempPath(n) == <<"/tmp/tubely-upload-", ToString(n), ".mp4">>
\* processVideoForFastStart: outputPath := inputPath + ".processing"
OutputPath(inputPath) == inputPath \o <<".processing">>

\* ------------------------------------------------------- authentication
Tokens == Users \cup {"none", "invalid"}

\* uuid.Parse, auth.GetBearerToken, auth.ValidateJWT at the head of a handler
Authenticate(kind, path, token, next) ==
  IF path = BadID
    THEN Respond(Fresh(kind, path, NoUser), 400, "Invalid ID", Err("uuid"), NoVideo)
  ELSE IF token = "none"
    THEN Respond(Fresh(kind, path, NoUser), 401, "Couldn't find JWT", Err("auth"), NoVideo)
  ELSE IF token = "invalid"
    THEN Respond(Fresh(kind, path, NoUser), 401, "Couldn't validate JWT", Err("auth"), NoVideo)
  ELSE [Fresh(kind, path, token) EXCEPT !.pc = next]

\* fault seeded for C8: the ownership check left out
IsOwnerAlways(video, userID) == TRUE

\* video.UserID != userID
IsOwner(video, userID) == video.owner = userID

\* cfg.db.GetVideo(videoID) and the ownership check after it
LoadVideo(l, next, notFoundMsg, notOwnerCode, notOwnerMsg) ==
  IF l.pc = "done" THEN l ELSE
  LET video == GetVideo(l.pathID)
      l1 == AddLog([l EXCEPT !.video = video, !.loaded = TRUE],
                   [Ev("get") EXCEPT !.n = l.pathID, !.ok = video.exists])
  IN IF ~video.exists THEN Respond(l1, 404, notFoundMsg, Err("db"), NoVideo)
     ELSE IF ~IsOwner(video, l.userID)
       THEN Respond(l1, notOwnerCode, notOwnerMsg, NoErr, NoVideo)
     ELSE [l1 EXCEPT !.pc = next]

\* r.ParseMultipartForm, r.FormFile, mime.ParseMediaType, the media type check
FormFailures == {"bad-form", "no-file", "bad-content-type"}

ParseUpload(l, form, allowed, noFile, notAllowed, next) ==
  IF l.pc = "done" THEN l ELSE
  LET l1 == AddLog(l, [Ev("parse") EXCEPT !.ct = form, !.ok = form \in allowed]) IN
  IF form = "bad-form"
    THEN Respond(l1, 400, "Unable to parse form data", Err("form"), NoVideo)
  ELSE IF form = "no-file" THEN Respond(l1, 400, noFile, Err("form"), NoVideo)
  ELSE IF form = "bad-content-type"
    THEN Respond(l1, 400, "Invalid content type", Err("mime"), NoVideo)
  ELSE IF form \notin allowed THEN Respond(l1, 400, notAllowed, NoErr, NoVideo)
  ELSE [l1 EXCEPT !.pc = next]

\* ------------------------------------------------------------- returning
\* fault seeded for C13: the file in the asset directory is removed on return
DeferredWithAsset(l) ==
  (IF l.tempName # <<>> THEN {l.tempName} ELSE {})
    \cup (IF l.removeProcessed THEN {l.processedPath} ELSE {})
    \cup (IF l.filePath # <<>> THEN {l.filePath} ELSE {})

\* the paths of the deferred os.Remove calls registered so far
Deferred(l) ==
  (IF l.tempName # <<>> THEN {l.tempName} ELSE {})
    \cup (IF l.removeProcessed THEN {l.processedPath} ELSE {})

\* the paths a request has written, or has had written for it
Own(l) ==
  (IF l.tempName # <<>> THEN {l.tempName} ELSE {})
    \cup (IF l.tempName # <<>> /\ l.kind = "video" THEN {OutputPath(l.tempName)} ELSE {})
    \cup (IF l.filePath # <<>> THEN {l.filePath} ELSE {})

\* the step of slot r ends with locals l and, before the deferred calls, disk d
Commit(r, l, d) ==
  IF l.pc = "done"
    THEN /\ disk' = d \ Deferred(l)
         /\ served' = [l EXCEPT !.left = Own(l) \cap (d \ Deferred(l))]
         /\ req' = [req EXCEPT ![r] = Idle]
    ELSE /\ disk' = d
         /\ served' = served
         /\ req' = [req EXCEPT ![r] = l]

\* ------------------------------------------------ handlerUploadVideo
\* steps 1-4: the id, the token, the video and its owner
UploadAuth(kind, path, token) ==
  LoadVideo(Authenticate(kind, path, token, "get"), "parse", "Video not found",
            401, "User is not the video owner")

\* steps 5-6: the form, its "video" part, the media type
UploadForm(l, form) ==
  ParseUpload(l, form, {"video/mp4"}, "Unable to get video file",
              "Only MP4 videos are allowed", "create")

\* an input is drawn only when the handler gets to read it
Returned(l) == l.pc = "done"

UVBegin(r) ==
  /\ CanStart(r)
  /\ budget' = budget - 1
  /\ \E path \in PathIDs, token \in Tokens :
       LET l == UploadAuth("video", path, token) IN
       IF Returned(l) THEN Commit(r, l, disk)
       ELSE \E form \in FormFailures \cup VideoMediaTypes :
              Commit(r, UploadForm(l, form), disk)
  /\ UNCHANGED <<db, nextID, clock, nextRand, store>>

\* step 7: os.CreateTemp("", "tubely-upload-*.mp4") gave the name n (0: it
\* failed), defer os.Remove(tempFile.Name()), io.Copy(tempFile, file)
StageTemp(l, n, copyOk, next) ==
  IF n = 0
    THEN Respond(AddLog(l, [Ev("createTemp") EXCEPT !.ok = FALSE]),
                 500, "Failed to create temp file", Err("os"), NoVideo)
  ELSE LET l1 == AddLog([l EXCEPT !.tempName = TempPath(n)],
                        [Ev("createTemp") EXCEPT !.key = TempPath(n)])
       IN IF ~copyOk
            THEN Respond(AddLog(l1, [Ev("copy") EXCEPT !.ok = FALSE]),
                         500, "Failed to save video to temp file", Err("io"), NoVideo)
            ELSE [AddLog(l1, Ev("copy")) EXCEPT !.pc = next]

\* fault seeded for C22: a temp name is given although a file has it
TempChoicesAny == 0..MaxTemp

\* the names os.CreateTemp can give: those of no file on the disk
TempChoices == {0} \cup {n \in 1..MaxTemp : TempPath(n) \notin disk}

Created(n) == IF n = 0 THEN {} ELSE {TempPath(n)}

UVStage(r) ==
  /\ req[r].kind = "video" /\ req[r].pc = "create"
  /\ \E n \in TempChoices :
       \E copyOk \in (IF n = 0 THEN {TRUE} ELSE BOOLEAN) :
         Commit(r, StageTemp(req[r], n, copyOk, "remux"), disk \cup Created(n))
  /\ UNCHANGED <<db, nextID, clock, nextRand, store, budget>>

\* step 7b: processVideoForFastStart(tempFile.Name()).  ffmpeg writes
\* inputPath + ".processing"; it does not overwrite an existing output, and when
\* it fails ("failed-left") it may leave what it wrote.
\* defer os.Remove(processedPath) is registered only after a success.
RemuxOutcomes == {"ok", "failed", "failed-left"}

Remux(l, outcome) ==
  LET out == OutputPath(l.tempName) IN
  IF outcome # "ok"
    THEN Respond(AddLog(l, [Ev("remux") EXCEPT !.key = out, !.ok = FALSE]),
                 500, "Failed to process video for fast start",
                 Err("ffmpeg faststart failed"), NoVideo)
    ELSE [AddLog(l, [Ev("remux") EXCEPT !.key = out])
            EXCEPT !.processedPath = out, !.removeProcessed = TRUE, !.pc = "open"]

\* what ffmpeg leaves on the disk
Written(l, outcome) == IF outcome = "failed" THEN {} ELSE {OutputPath(l.tempName)}

\* os.Open(processedPath)
Open(l, openOk) ==
  IF l.pc = "done" THEN l
  ELSE IF ~openOk
    THEN Respond(AddLog(l, [Ev("open") EXCEPT !.key = l.processedPath, !.ok = FALSE]),
                 500, "Failed to open processed video", Err("os"), NoVideo)
  ELSE [AddLog(l, [Ev("open") EXCEPT !.key = l.processedPath])
          EXCEPT !.offset = 0, !.pc = "rand"]

\* rand.Read(randomBytes), base64.RawURLEncoding.EncodeToString(randomBytes)
Random(l, randOk, n, msg, next) ==
  IF l.pc = "done" THEN l
  ELSE IF ~randOk
    THEN Respond(AddLog(l, [Ev("rand") EXCEPT !.ok = FALSE]), 500, msg, Err("rand"), NoVideo)
  ELSE [AddLog(l, [Ev("rand") EXCEPT !.key = RandomString(n)])
          EXCEPT !.randomString = RandomString(n), !.pc = next]

\* crypto/rand gave an output
Drew(l) == l.randomString # <<>>

\* fault seeded for C17: the key without the classification
FileKeyFlat(aspectRatio, randomString) == randomString \o <<".mp4">>

\* fileKey := fmt.Sprintf("%s/%s.mp4", aspectRatio, randomString)
FileKey(aspectRatio, randomString) == <<aspectRatio, "/">> \o randomString \o <<".mp4">>

\* what ffprobe does: it fails, or prints what does not parse, or reports streams
ProbeFailures == {"ffprobe failed", "failed to parse ffprobe output"}
ProbeOutcomes ==
  {[fail |-> f, streams |-> <<>>] : f \in ProbeFailures}
    \cup {[fail |-> "", streams |-> <<d>>] : d \in Dims}

\* fault seeded for C18: a failed probe falls back to "other" and goes on
ProbeWithFallback(l, outcome) ==
  IF l.pc = "done" THEN l
  ELSE [AddLog(l, [Ev("probe") EXCEPT !.key = l.processedPath, !.ok = outcome.fail = "",
                                      !.ct = "other"])
          EXCEPT !.fileKey = FileKey("other", l.randomString),
                 !.attempt = 1, !.uploadErr = NoErr, !.pc = "upload"]

\* getVideoAspectRatio(processedPath), then the key; the retry loop is next
Probe(l, outcome) ==
  IF l.pc = "done" THEN l
  ELSE IF outcome.fail # ""
    THEN Respond(AddLog(l, [Ev("probe") EXCEPT !.key = l.processedPath, !.ok = FALSE,
                                               !.err = Err(outcome.fail)]),
                 500, "Failed to analyze video", Err(outcome.fail), NoVideo)
  ELSE [AddLog(l, [Ev("probe") EXCEPT !.key = l.processedPath,
                                      !.ct = getVideoAspectRatio(outcome.streams),
                                      !.streams = outcome.streams])
          EXCEPT !.fileKey = FileKey(getVideoAspectRatio(outcome.streams), l.randomString),
                 !.attempt = 1, !.uploadErr = NoErr, !.pc = "upload"]

\* the remux, the open, the random key and the probe, ffprobe doing one of probes
Process(r, probes) ==
  /\ req[r].kind = "video" /\ req[r].pc = "remux"
  /\ \E remux \in RemuxOutcomes :
       /\ remux = "ok" => OutputPath(req[r].tempName) \notin disk
       /\ LET End(l) == /\ Commit(r, l, disk \cup Written(req[r], remux))
                        /\ nextRand' = IF Drew(l) THEN nextRand + 1 ELSE nextRand
              l1 == Remux(req[r], remux)
          IN IF Returned(l1) THEN End(l1)
             ELSE \E openOk \in BOOLEAN :
               LET l2 == Open(l1, openOk) IN
               IF Returned(l2) THEN End(l2)
               ELSE \E randOk \in BOOLEAN :
                 LET l3 == Random(l2, randOk, nextRand,
                                  "Failed to generate random filename", "probe") IN
                 IF Returned(l3) THEN End(l3)
                 ELSE \E probe \in probes : End(Probe(l3, probe))
  /\ UNCHANGED <<db, nextID, clock, store, budget>>

UVProcess(r) == Process(r, ProbeOutcomes)

\* ------------------------------------------- step 8: upload with retries
\* fault seeded for C2: a loop that runs one turn too many
LoopCondOffByOne(attempt) == attempt <= maxRetries + 1

\* for attempt := 1; attempt <= maxRetries; attempt++
LoopCond(attempt) == attempt <= maxRetries

\* fault seeded for C3: a backoff that does not grow
backoffConstant(attempt) == 1

\* backoffTime := time.Second * time.Duration(attempt), in seconds
backoffTime(attempt) == attempt

\* if attempt < maxRetries { time.Sleep(backoffTime) }
SleepsAfter(attempt) == attempt < maxRetries

\* fault seeded for C5: the loop is left, the seek error is not kept
SeekFailureIgnored(l) ==
  AddLog(l, [Ev("seek") EXCEPT !.n = l.attempt, !.ok = FALSE, !.err = SeekError])

\* Seek(0, io.SeekStart) failed: uploadErr = seekErr; break
SeekFails(l) ==
  AddLog([l EXCEPT !.uploadErr = SeekError],
         [Ev("seek") EXCEPT !.n = l.attempt, !.ok = FALSE, !.err = SeekError])

\* Seek(0, io.SeekStart) succeeded: the read offset is 0
SeekOK(l) == [AddLog(l, [Ev("seek") EXCEPT !.n = l.attempt]) EXCEPT !.offset = 0]

\* the object a successful PutObject leaves; its body is what the reader
\* yields from its offset on
Object(bucket, key, ct, offset) ==
  [bucket |-> bucket, key |-> key, ct |-> ct, full |-> offset = 0]

PutEv(l, bucket, err) ==
  [Ev("put") EXCEPT !.bucket = bucket, !.key = l.fileKey, !.ct = "video/mp4",
                    !.n = l.attempt, !.ok = err = NoErr, !.err = err]

\* PutObject returned nil: uploadErr = nil; break
PutOK(l, bucket) ==
  [AddLog(l, PutEv(l, bucket, NoErr)) EXCEPT !.uploadErr = NoErr, !.offset = 1]

\* PutObject returned err, having read from the body: sleep unless this was
\* the last attempt; attempt++
PutFails(l, bucket, err) ==
  LET l1 == AddLog(l, PutEv(l, bucket, err))
      l2 == IF SleepsAfter(l.attempt)
              THEN AddLog(l1, [Ev("sleep") EXCEPT !.n = backoffTime(l.attempt)])
              ELSE l1
  IN [l2 EXCEPT !.uploadErr = err, !.offset = 1, !.attempt = @ + 1]

\* fault seeded for C4: the error of the loop is not looked at
AfterLoopUnchecked(l) == [l EXCEPT !.pc = "update"]

\* "if uploadErr != nil" after the loop
AfterLoop(l) ==
  IF l.uploadErr # NoErr
    THEN Respond(l, 500, "Failed to upload to S3 after retries", l.uploadErr, NoVideo)
    ELSE [l EXCEPT !.pc = "update"]

\* one turn of the loop: Seek, PutObject, the sleep, the loop condition
Attempt(l, bucket, seekOk, putOk) ==
  IF ~seekOk THEN AfterLoop(SeekFails(l))
  ELSE IF putOk THEN AfterLoop(PutOK(SeekOK(l), bucket))
  ELSE LET l1 == PutFails(SeekOK(l), bucket, StoreError(l.attempt)) IN
       IF LoopCond(l1.attempt) THEN l1 ELSE AfterLoop(l1)

\* the objects the turn adds to the store
Uploaded(l, bucket, seekOk, putOk) ==
  IF seekOk /\ putOk THEN {Object(bucket, l.fileKey, "video/mp4", SeekOK(l).offset)} ELSE {}

UVAttempt(r) ==
  /\ req[r].kind = "video" /\ req[r].pc = "upload"
  /\ \E seekOk \in BOOLEAN : \E putOk \in (IF seekOk THEN BOOLEAN ELSE {TRUE}) :
       /\ Commit(r, Attempt(req[r], S3Bucket, seekOk, putOk), disk)
       /\ store' = store \cup Uploaded(req[r], S3Bucket, seekOk, putOk)
  /\ UNCHANGED <<db, nextID, clock, nextRand, budget>>

\* ------------------------------------------------ step 9: publish
\* fault seeded for C9: the key written before the bucket
VideoURLSwapped(bucket, fileKey) == fileKey \o <<",">> \o bucket

\* videoURL := fmt.Sprintf("%s,%s", cfg.s3Bucket, fileKey)
VideoURL(bucket, fileKey) == bucket \o <<",">> \o fileKey

\* updatedVideo := video; UpdatedAt = time.Now(); VideoURL = &videoURL
UpdatedVideo(video, now, videoURL) ==
  [video EXCEPT !.updatedAt = now, !.videoURL = Ptr(videoURL)]

\* cfg.db.UpdateVideo(record) as a call: what it was asked to write
UpdateEv(video, dbOk) ==
  [Ev("update") EXCEPT !.key = video.videoURL.s, !.bucket = video.thumbnailURL.s,
                       !.n = video.id, !.ok = dbOk]

\* cfg.db.UpdateVideo(updatedVideo), cfg.dbVideoToSignedVideo(updatedVideo), respond
Publish(l, uv, dbOk, signOk) ==
  IF ~dbOk
    THEN Respond(AddLog(l, UpdateEv(uv, FALSE)), 500, "Failed to update video", Err("db"), NoVideo)
  ELSE LET res == dbVideoToSignedVideo(uv, signOk)
           l1 == [AddLog(l, UpdateEv(uv, TRUE)) EXCEPT !.log = @ \o res.calls]
       IN IF res.err # NoErr
            THEN Respond(l1, 500, "Failed to generate signed URL", res.err, NoVideo)
            ELSE Respond(l1, 200, "", NoErr, res.video)

\* updatedVideo.UpdatedAt = time.Now(): the clock is read, the write comes later
Stamp(l, now) == [l EXCEPT !.now = now, !.pc = "write"]

UVStamp(r) ==
  /\ req[r].kind = "video" /\ req[r].pc = "update"
  /\ clock' = clock + 1
  /\ Commit(r, Stamp(req[r], clock), disk)
  /\ UNCHANGED <<db, nextID, nextRand, store, budget>>

UVUpdate(r) ==
  /\ req[r].kind = "video" /\ req[r].pc = "write"
  /\ \E dbOk \in BOOLEAN : \E signOk \in (IF dbOk THEN BOOLEAN ELSE {TRUE}) :
       LET uv == UpdatedVideo(req[r].video, req[r].now,
                              VideoURL(S3Bucket, req[r].fileKey)) IN
       /\ Commit(r, Publish(req[r], uv, dbOk, signOk), disk)
       /\ db' = IF dbOk THEN UpdateVideo(db, uv) ELSE db
  /\ UNCHANGED <<nextID, clock, nextRand, store, budget>>

\* ------------------- handlerUploadVideo of handler_upload_thumbnail.go
\* the handler that uploads the temp file as it is and stores a plain URL
LVBegin(r) ==
  /\ CanStart(r)
  /\ budget' = budget - 1
  /\ \E path \in PathIDs, token \in Tokens :
       LET l == UploadAuth("legacy", path, token) IN
       IF Returned(l) THEN Commit(r, l, disk)
       ELSE \E form \in FormFailures \cup VideoMediaTypes :
              Commit(r, UploadForm(l, form), disk)
  /\ UNCHANGED <<db, nextID, clock, nextRand, store>>

\* tempFile.Seek(0, io.SeekStart) after the copy
Rewind(l, seekOk) ==
  IF l.pc = "done" THEN l
  ELSE IF ~seekOk
    THEN Respond(AddLog(l, [Ev("seek") EXCEPT !.ok = FALSE, !.err = SeekError]),
                 500, "Failed to reset file pointer", SeekError, NoVideo)
  ELSE [AddLog(l, Ev("seek")) EXCEPT !.offset = 0, !.pc = "rand"]

\* fileKey := randomString + ".mp4"; the retry loop is next
LegacyFileKey(l) ==
  IF l.pc = "done" THEN l
  ELSE [l EXCEPT !.fileKey = l.randomString \o <<".mp4">>, !.attempt = 1,
                 !.uploadErr = NoErr, !.pc = "upload"]

LVStage(r) ==
  /\ req[r].kind = "legacy" /\ req[r].pc = "create"
  /\ \E n \in TempChoices :
       LET End(l) == /\ Commit(r, l, disk \cup Created(n))
                     /\ nextRand' = IF Drew(l) THEN nextRand + 1 ELSE nextRand
       IN \E copyOk \in (IF n = 0 THEN {TRUE} ELSE BOOLEAN) :
            LET l1 == StageTemp(req[r], n, copyOk, "seek") IN
            IF Returned(l1) THEN End(l1)
            ELSE \E seekOk \in BOOLEAN :
              LET l2 == Rewind(l1, seekOk) IN
              IF Returned(l2) THEN End(l2)
              ELSE \E randOk \in BOOLEAN :
                End(LegacyFileKey(Random(l2, randOk, nextRand,
                                         "Failed to generate random filename", "key")))
  /\ UNCHANGED <<db, nextID, clock, store, budget>>

LVAttempt(r) ==
  /\ req[r].kind = "legacy" /\ req[r].pc = "upload"
  /\ \E seekOk \in BOOLEAN : \E putOk \in (IF seekOk THEN BOOLEAN ELSE {TRUE}) :
       /\ Commit(r, Attempt(req[r], S3Bucket, seekOk, putOk), disk)
       /\ store' = store \cup Uploaded(req[r], S3Bucket, seekOk, putOk)
  /\ UNCHANGED <<db, nextID, clock, nextRand, budget>>

\* videoURL := fmt.Sprintf("https://%s.s3.%s.amazonaws.com/%s", bucket, region, fileKey)
LegacyVideoURL(bucket, region, fileKey) ==
  <<"https://">> \o bucket \o <<".s3.">> \o region \o <<".amazonaws.com/">> \o fileKey

\* cfg.db.UpdateVideo(updatedVideo), respondWithJSON(updatedVideo)
PublishRaw(l, uv, dbOk) ==
  IF ~dbOk
    THEN Respond(AddLog(l, UpdateEv(uv, FALSE)), 500, "Failed to update video", Err("db"), NoVideo)
    ELSE Respond(AddLog(l, UpdateEv(uv, TRUE)), 200, "", NoErr, uv)

LVStamp(r) ==
  /\ req[r].kind = "legacy" /\ req[r].pc = "update"
  /\ clock' = clock + 1
  /\ Commit(r, Stamp(req[r], clock), disk)
  /\ UNCHANGED <<db, nextID, nextRand, store, budget>>

LVUpdate(r) ==
  /\ req[r].kind = "legacy" /\ req[r].pc = "write"
  /\ \E dbOk \in BOOLEAN :
       LET uv == UpdatedVideo(req[r].video, req[r].now,
                              LegacyVideoURL(S3Bucket, S3Region, req[r].fileKey)) IN
       /\ Commit(r, PublishRaw(req[r], uv, dbOk), disk)
       /\ db' = IF dbOk THEN UpdateVideo(db, uv) ELSE db
  /\ UNCHANGED <<nextID, clock, nextRand, store, budget>>

\* ------------------------------------------------ handlerUploadThumbnail
getFileExtension(mediaType) ==
  IF mediaType \in {"image/jpeg", "image/jpg"} THEN ".jpg"
  ELSE IF mediaType = "image/png" THEN ".png"
  ELSE ".jpg"

\* filename := randomString + fileExtension
Filename(randomString, mediaType) == randomString \o <<getFileExtension(mediaType)>>
\* filepath.Join(cfg.assetsRoot, filename)
AssetPath(filename) == Join(AssetsRoot, filename)
\* fmt.Sprintf("http://localhost:%s/assets/%s", cfg.port, filename)
ThumbnailURL(filename) == <<"http://localhost:">> \o Port \o <<"/assets/">> \o filename

\* os.Create(filePath), io.Copy(outFile, file); the file stays where it is
CreateAsset(l, mediaType, createOk, copyOk) ==
  IF l.pc = "done" THEN l
  ELSE LET name == Filename(l.randomString, mediaType)
           l1 == [l EXCEPT !.fileKey = name] IN
    IF ~createOk
      THEN Respond(AddLog(l1, [Ev("createFile") EXCEPT !.key = AssetPath(name), !.ok = FALSE]),
                   500, "Failed to create file", Err("os"), NoVideo)
    ELSE LET l2 == AddLog([l1 EXCEPT !.filePath = AssetPath(name)],
                          [Ev("createFile") EXCEPT !.key = AssetPath(name)]) IN
      IF ~copyOk
        THEN Respond(AddLog(l2, [Ev("copy") EXCEPT !.ok = FALSE]),
                     500, "Failed to save file", Err("io"), NoVideo)
        ELSE [AddLog(l2, Ev("copy")) EXCEPT !.pc = "get"]

\* fault seeded for C14: every image type is let through
ThumbnailFormLax(l, form) ==
  ParseUpload(l, form, ThumbMediaTypes, "Unable to get form file",
              "Only JPEG and PNG images are allowed", "rand")

\* the form, its "thumbnail" part, the media type
ThumbnailForm(l, form) ==
  ParseUpload(l, form, {"image/jpeg", "image/png"}, "Unable to get form file",
              "Only JPEG and PNG images are allowed", "rand")

\* the id, the token, the form, the media type, the random name, the file
TNStage(r) ==
  /\ CanStart(r)
  /\ budget' = budget - 1
  /\ \E path \in PathIDs, token \in Tokens :
       LET End(l) == /\ Commit(r, l, IF l.filePath # <<>> THEN disk \cup {l.filePath} ELSE disk)
                     /\ nextRand' = IF Drew(l) THEN nextRand + 1 ELSE nextRand
           l0 == Authenticate("thumbnail", path, token, "parse")
       IN IF Returned(l0) THEN End(l0)
          ELSE \E form \in FormFailures \cup ThumbMediaTypes :
            LET l1 == ThumbnailForm(l0, form) IN
            IF Returned(l1) THEN End(l1)
            ELSE \E randOk \in BOOLEAN :
              LET l2 == Random(l1, randOk, nextRand, "Failed to generate random bytes",
                               "create") IN
              IF Returned(l2) THEN End(l2)
              ELSE \E createOk \in BOOLEAN :
                \E copyOk \in (IF createOk THEN BOOLEAN ELSE {TRUE}) :
                  End(CreateAsset(l2, form, createOk, copyOk))
  /\ UNCHANGED <<db, nextID, clock, store>>

\* cfg.db.GetVideo(videoID) and the ownership check, after the file is written
TNGetVideo(r) ==
  /\ req[r].kind = "thumbnail" /\ req[r].pc = "get"
  /\ Commit(r, LoadVideo(req[r], "update", "Video not found", 401,
                         "User is not the video owner"), disk)
  /\ UNCHANGED <<db, nextID, clock, nextRand, store, budget>>

\* updatedVideo := video; UpdatedAt = time.Now(); ThumbnailURL = &thumbnailURL
UpdatedThumbnail(video, now, thumbnailURL) ==
  [video EXCEPT !.updatedAt = now, !.thumbnailURL = Ptr(thumbnailURL)]

TNStamp(r) ==
  /\ req[r].kind = "thumbnail" /\ req[r].pc = "update"
  /\ clock' = clock + 1
  /\ Commit(r, Stamp(req[r], clock), disk)
  /\ UNCHANGED <<db, nextID, nextRand, store, budget>>

\* cfg.db.UpdateVideo(updatedVideo), respondWithJSON(updatedVideo)
TNUpdate(r) ==
  /\ req[r].kind = "thumbnail" /\ req[r].pc = "write"
  /\ \E dbOk \in BOOLEAN :
       LET uv == UpdatedThumbnail(req[r].video, req[r].now, ThumbnailURL(req[r].fileKey)) IN
       /\ Commit(r, PublishRaw(req[r], uv, dbOk), disk)
       /\ db' = IF dbOk THEN UpdateVideo(db, uv) ELSE db
  /\ UNCHANGED <<nextID, clock, nextRand, store, budget>>

\* ------------------------------------------------ handlerVideoMetaCreate
\* cfg.db.CreateVideo(params) with params.UserID = userID
CreateVideo(id, userID, now) ==
  [id |-> id, exists |-> TRUE, owner |-> userID, videoURL |-> Nil,
   thumbnailURL |-> Nil, updatedAt |-> now]

\* the token, the JSON body, cfg.db.CreateVideo
MetaCreate(token, body, id, now) ==
  LET l == Authenticate("create", id, token, "create") IN
  IF l.pc = "done" THEN l
  ELSE IF body = "bad-json"
    THEN Respond(l, 500, "Couldn't decode parameters", Err("json"), NoVideo)
  ELSE IF body = "db-error"
    THEN Respond(AddLog(l, [Ev("create") EXCEPT !.ok = FALSE]),
                 500, "Couldn't create video", Err("db"), NoVideo)
  ELSE Respond(AddLog(l, [Ev("create") EXCEPT !.n = id]), 201, "", NoErr,
               CreateVideo(id, l.userID, now))

VideoMetaCreate(r) ==
  /\ CanStart(r)
  /\ nextID <= MaxVideos
  /\ budget' = budget - 1
  /\ \E token \in Tokens, body \in {"ok", "bad-json", "db-error"} :
       LET l == MetaCreate(token, body, nextID, clock) IN
       /\ Commit(r, l, disk)
       /\ IF l.resp.code = 201
            THEN /\ db' = [db EXCEPT ![nextID] = l.resp.video]
                 /\ nextID' = nextID + 1
                 /\ clock' = clock + 1
            ELSE UNCHANGED <<db, nextID, clock>>
  /\ UNCHANGED <<nextRand, store>>

\* ------------------------------------------------ handlerVideoMetaDelete
VMDBegin(r) ==
  /\ CanStart(r)
  /\ budget' = budget - 1
  /\ \E path \in PathIDs, token \in Tokens :
       Commit(r, LoadVideo(Authenticate("delete", path, token, "get"), "delete",
                           "Couldn't get video", 403, "You can't delete this video"), disk)
  /\ UNCHANGED <<db, nextID, clock, nextRand, store>>

\* cfg.db.DeleteVideo(videoID)
MetaDelete(l, dbOk) ==
  IF ~dbOk
    THEN Respond(AddLog(l, [Ev("delete") EXCEPT !.n = l.pathID, !.ok = FALSE]),
                 500, "Couldn't delete video", Err("db"), NoVideo)
    ELSE Respond(AddLog(l, [Ev("delete") EXCEPT !.n = l.pathID]), 204, "", NoErr, NoVideo)

VMDDelete(r) ==
  /\ req[r].kind = "delete" /\ req[r].pc = "delete"
  /\ \E dbOk \in BOOLEAN :
       /\ Commit(r, MetaDelete(req[r], dbOk), disk)
       /\ db' = IF dbOk THEN [db EXCEPT ![req[r].pathID] = NoVideo] ELSE db
  /\ UNCHANGED <<nextID, clock, nextRand, store, budget>>

\* ------------------------------------------------------- handlerVideoGet
\* uuid.Parse, cfg.db.GetVideo, cfg.dbVideoToSignedVideo, respond
VideoGetResult(path, video, signOk) ==
  LET l0 == [Fresh("get", path, NoUser) EXCEPT !.pc = "get"]
      l1 == AddLog([l0 EXCEPT !.video = video, !.loaded = TRUE],
                   [Ev("get") EXCEPT !.n = path, !.ok = video.exists])
      res == dbVideoToSignedVideo(video, signOk)
      l2 == [l1 EXCEPT !.log = @ \o res.calls]
  IN IF path = BadID THEN Respond(l0, 400, "Invalid video ID", Err("uuid"), NoVideo)
     ELSE IF ~video.exists THEN Respond(l1, 404, "Video not found", Err("db"), NoVideo)
     ELSE IF res.err # NoErr
       THEN Respond(l2, 500, "Failed to generate signed URL", res.err, NoVideo)
     ELSE Respond(l2, 200, "", NoErr, res.video)

\* fault seeded for C11: the handler stores the record it resolved
VideoGetStoring(r) ==
  /\ CanStart(r)
  /\ budget' = budget - 1
  /\ \E path \in PathIDs, signOk \in BOOLEAN :
       LET l == VideoGetResult(path, GetVideo(path), signOk) IN
       /\ Commit(r, l, disk)
       /\ db' = IF l.resp.code = 200 THEN UpdateVideo(db, l.resp.video) ELSE db
  /\ UNCHANGED <<nextID, clock, nextRand, store>>

VideoGet(r) ==
  /\ CanStart(r)
  /\ budget' = budget - 1
  /\ \E path \in PathIDs, signOk \in BOOLEAN :
       Commit(r, VideoGetResult(path, GetVideo(path), signOk), disk)
  /\ UNCHANGED <<db, nextID, clock, nextRand, store>>

\* ------------------------------------------------- handlerVideosRetrieve
\* cfg.db.GetVideos(userID): the user's records, by id, of the table's ids from on
RECURSIVE GetVideos(_, _)
GetVideos(userID, from) ==
  IF from \notin DOMAIN db THEN <<>>
  ELSE (IF db[from].exists /\ db[from].owner = userID THEN <<db[from]>> ELSE <<>>)
         \o GetVideos(userID, from + 1)

\* the loop over the videos: it stops at the first one that fails to resolve
RECURSIVE SignAll(_, _)
SignAll(videos, signOk) ==
  IF videos = <<>> THEN [videos |-> <<>>, err |-> NoErr, calls |-> <<>>]
  ELSE LET res == dbVideoToSignedVideo(Head(videos), signOk[Head(videos).id]) IN
       IF res.err # NoErr THEN [videos |-> <<>>, err |-> res.err, calls |-> res.calls]
       ELSE LET rest == SignAll(Tail(videos), signOk) IN
            [videos |-> IF rest.err # NoErr THEN <<>> ELSE <<res.video>> \o rest.videos,
             err |-> rest.err, calls |-> res.calls \o rest.calls]

VideosRetrieveResult(token, videos, dbOk, signOk) ==
  LET l0 == Authenticate("retrieve", BadID + 1, token, "get")
      l1 == AddLog(l0, [Ev("list") EXCEPT !.n = Len(videos), !.ok = dbOk])
      res == SignAll(videos, signOk)
      l2 == [l1 EXCEPT !.log = @ \o res.calls]
  IN IF l0.pc = "done" THEN l0
     ELSE IF ~dbOk THEN Respond(l1, 500, "Failed to get videos", Err("db"), NoVideo)
     ELSE IF res.err # NoErr
       THEN Respond(l2, 500, "Failed to generate signed URLs", res.err, NoVideo)
     ELSE [Respond(l2, 200, "", NoErr, NoVideo) EXCEPT !.resp.videos = res.videos]

VideosRetrieve(r) ==
  /\ CanStart(r)
  /\ budget' = budget - 1
  /\ \E token \in Tokens :
       \E dbOk \in (IF token \in Users THEN BOOLEAN ELSE {TRUE}) :
         \E signOk \in (IF token \in Users /\ dbOk THEN [DOMAIN db -> BOOLEAN]
                                                   ELSE {[id \in DOMAIN db |-> TRUE]}) :
           Commit(r, VideosRetrieveResult(token, GetVideos(token, 1), dbOk, signOk), disk)
  /\ UNCHANGED <<db, nextID, clock, nextRand, store>>

\* ---------------------------------------------------------- the system
\* a slot that is switched off serves nothing
Off == [Idle EXCEPT !.pc = "off"]

\* the server starts on a metadata store that is empty or holds a record
\* created earlier; no request is in flight, no file staged, no object stored
Start ==
  /\ \E owner \in {NoUser, "u1"} :
       /\ db = [id \in VideoIDs |->
                  IF id = 1 /\ owner # NoUser THEN CreateVideo(1, owner, 0) ELSE NoVideo]
       /\ nextID = IF owner # NoUser THEN 2 ELSE 1
  /\ clock = 1
  /\ nextRand = 1
  /\ disk = {}
  /\ store = {}
  /\ served = Idle

\* requests are served one at a time
Init ==
  /\ Start
  /\ req = [r \in Req |-> IF r = 1 THEN Idle ELSE Off]
  /\ budget = MaxRequests

\* two requests arrive and are served together
InitConc ==
  /\ Start
  /\ req = [r \in Req |-> Idle]
  /\ budget = Cardinality(Req)

Step(r) ==
  \/ VideoMetaCreate(r) \/ VMDBegin(r) \/ VMDDelete(r) \/ VideoGet(r) \/ VideosRetrieve(r)
  \/ TNStage(r) \/ TNGetVideo(r) \/ TNStamp(r) \/ TNUpdate(r)
  \/ UVBegin(r) \/ UVStage(r) \/ UVProcess(r) \/ UVAttempt(r) \/ UVStamp(r) \/ UVUpdate(r)
  \/ LVBegin(r) \/ LVStage(r) \/ LVAttempt(r) \/ LVStamp(r) \/ LVUpdate(r)

Next == \E r \in Req : Step(r)

Spec == Init /\ [][Next]_vars

SpecConc == InitConc /\ [][Next]_vars

\* ------------------------------------------------- the resolver on its own
\* the references tried on the resolver: nil, and every string of at most
\* MaxLen tokens over a bucket chunk, a key chunk and the comma
RefTokens == {"b", "k", ","}
Refs == {Nil} \cup {Ptr(s) : s \in UNION {[1..n -> RefTokens] : n \in 0..MaxLen}}

\* a record with any of these references is in the metadata store, put there
\* by whatever wrote the table; requests that read it arrive
InitResolve ==
  /\ \E ref \in Refs :
       db = [id \in VideoIDs |->
               IF id = 1 THEN [CreateVideo(1, "u1", 0) EXCEPT !.videoURL = ref] ELSE NoVideo]
  /\ nextID = 2
  /\ clock = 1
  /\ nextRand = 1
  /\ disk = {}
  /\ store = {}
  /\ served = Idle
  /\ req = [r \in Req |-> IF r = 1 THEN Idle ELSE Off]
  /\ budget = MaxRequests

NextResolve == \E r \in Req : VideoGet(r) \/ VideosRetrieve(r)

SpecResolve == InitResolve /\ [][NextResolve]_vars

\* --------------------------------------------------- the listing on its own
\* the references of the listed records: none, the empty string, one that
\* names a bucket and a key, one without a comma
ListRefs == {Nil, Ptr(<<>>), Ptr(<<"b", ",", "k">>), Ptr(<<"b">>)}

\* the records a table of MaxListed rows can hold at id
ListRows(id) ==
  {NoVideo} \cup {[CreateVideo(id, owner, 0) EXCEPT !.videoURL = ref] :
                    owner \in Users, ref \in ListRefs}

\* the metadata store holds any such table, put there by whatever wrote it;
\* requests that list a user's videos arrive
InitList ==
  /\ \E rows \in [1..MaxListed -> UNION {ListRows(id) : id \in 1..MaxListed}] :
       /\ \A id \in 1..MaxListed : rows[id] \in ListRows(id)
       /\ db = rows
  /\ nextID = MaxListed + 1
  /\ clock = 1
  /\ nextRand = 1
  /\ disk = {}
  /\ store = {}
  /\ served = Idle
  /\ req = [r \in Req |-> IF r = 1 THEN Idle ELSE Off]
  /\ budget = MaxRequests

NextList == \E r \in Req : VideosRetrieve(r)

SpecList == InitList /\ [][NextList]_vars

\* ------------------------------------------------------------ vocabulary
\* the requests whose trace the state holds: the one that returned last and
\* those in flight
Traces == {served} \cup {req[r] : r \in Req}
\* the requests to handlerUploadVideo of unnamed/part_001 among them
Ingests == {l \in Traces : l.kind = "video"}

IsPut(e) == e.op = "put"
IsSleep(e) == e.op = "sleep"
IsLoopCall(e) == e.op \in {"seek", "put", "sleep"}
PutsOf(l) == SelectSeq(l.log, IsPut)
SleepsOf(l) == SelectSeq(l.log, IsSleep)
LoopOf(l) == SelectSeq(l.log, IsLoopCall)
Ops(l, op) == {i \in 1..Len(l.log) : l.log[i].op = op}

RECURSIVE Seconds(_)
Seconds(sleeps) == IF sleeps = <<>> THEN 0 ELSE Head(sleeps).n + Seconds(Tail(sleeps))

\* the retry loop of l has been left
LoopOver(l) == l.fileKey # <<>> /\ l.pc \in {"update", "write", "done"}
SeekFailed(l) == \E i \in Ops(l, "seek") : ~l.log[i].ok
\* the outcomes of the puts so far, in order
Pattern(l) == [i \in 1..Len(PutsOf(l)) |-> PutsOf(l)[i].ok]

\* exactly two non-empty components around one comma
WellFormedRef(s) ==
  LET parts == Split(s) IN Len(parts) = 2 /\ parts[1] # <<>> /\ parts[2] # <<>>

\* ================================================================ claims
\* C1: after a video-ingest request that created its temp file has returned,
\* by whatever exit path, neither the temp file nor the rewritten file
\* <temp path>.processing is on the disk.
C1_TempFilesRemoved ==
  served.kind = "video" /\ served.tempName # <<>> => served.left = {}

\* C2: one video-ingest request calls the store's put at most 3 times, attempt
\* after attempt, and never again after a put that returned no error; when the
\* loop is left with no seek failure the number of puts is the index of the
\* first successful attempt, or 3 when all fail.
C2_PutCount ==
  \A l \in Ingests :
    LET p == PutsOf(l) IN
    /\ Len(p) <= 3
    /\ \A i \in 1..Len(p) : p[i].n = i
    /\ \A i \in 1..(Len(p) - 1) : ~p[i].ok
    /\ LoopOver(l) /\ ~SeekFailed(l) =>
         /\ Len(p) >= 1
         /\ \/ p[Len(p)].ok
            \/ Len(p) = 3 /\ \A i \in 1..3 : ~p[i].ok

\* C2 happens: a request returned after a failed first put and a second put
\* that succeeded
C2_Witness ==
  /\ served.kind = "video"
  /\ Pattern(served) = <<FALSE, TRUE>>

\* C3: the loop does not sleep before attempt 1; after a failed attempt 1 it
\* sleeps 1 second, after a failed attempt 2 it sleeps 2 seconds, after a failed
\* attempt 3 it does not sleep; two failures followed by a success, and three
\* failures, both sleep 3 seconds in all.
C3_Backoff ==
  \A l \in Ingests :
    LET lp == LoopOf(l) IN
    /\ \A j \in 1..Len(lp) :
         /\ IsSleep(lp[j]) =>
              /\ j > 1
              /\ IsPut(lp[j-1]) /\ ~lp[j-1].ok /\ lp[j-1].n \in {1, 2}
              /\ lp[j].n = lp[j-1].n
         /\ IsPut(lp[j]) /\ ~lp[j].ok /\ lp[j].n \in {1, 2} =>
              j < Len(lp) /\ IsSleep(lp[j+1])
         /\ IsPut(lp[j]) /\ ~lp[j].ok /\ lp[j].n = 3 => j = Len(lp)
         /\ IsPut(lp[j]) /\ lp[j].ok => j = Len(lp)
    /\ Pattern(l) \in {<<FALSE, FALSE, TRUE>>, <<FALSE, FALSE, FALSE>>} =>
         Seconds(SleepsOf(l)) = 3

\* C3 happens: a request returned whose third put succeeded after two failures
C3_Witness ==
  /\ served.kind = "video"
  /\ Pattern(served) = <<FALSE, FALSE, TRUE>>
  /\ Len(SleepsOf(served)) = 2

\* C4: when all 3 puts failed the request has returned an error that carries
\* the error of the third attempt, UpdateVideo was never called, and the stored
\* record of the video is the one the request loaded.
C4_Exhaustion ==
  \A l \in Ingests :
    Pattern(l) = <<FALSE, FALSE, FALSE>> =>
      /\ l.pc = "done"
      /\ l.resp.code = 500
      /\ l.resp.err = PutsOf(l)[3].err
      /\ l.resp.err # NoErr
      /\ l.resp.err \notin {PutsOf(l)[1].err, PutsOf(l)[2].err}
      /\ Ops(l, "update") = {}
      /\ db[l.pathID] = l.video

\* C4 happens: a request returned after three failed puts
C4_Witness ==
  /\ served.kind = "video"
  /\ Pattern(served) = <<FALSE, FALSE, FALSE>>
  /\ served.video.exists

\* C5: every put of the loop comes right after a successful seek to offset 0 of
\* the same attempt, so every stored object holds the whole file; a failed seek
\* is the last call of the loop (no put, no sleep, no seek after it), and the
\* request has returned its error without calling UpdateVideo.
C5_SeekBeforePut ==
  /\ \A l \in Ingests :
       LET lp == LoopOf(l) IN
       \A j \in 1..Len(lp) :
         /\ IsPut(lp[j]) =>
              /\ j > 1
              /\ lp[j-1].op = "seek" /\ lp[j-1].ok /\ lp[j-1].n = lp[j].n
         /\ lp[j].op = "seek" /\ ~lp[j].ok =>
              /\ j = Len(lp)
              /\ l.pc = "done"
              /\ l.resp.code = 500
              /\ l.resp.err = lp[j].err
              /\ Ops(l, "update") = {}
  /\ \A o \in store : o.full

\* C5 happens: a request returned after the seek before its second attempt failed
C5_Witness ==
  /\ served.kind = "video"
  /\ Pattern(served) = <<FALSE>>
  /\ SeekFailed(served)

\* C6: every stored record's video reference is nil or splits on "," into
\* exactly two non-empty components, whichever handlers have run.
C6_ReferenceFormat ==
  \A id \in VideoIDs :
    db[id].exists => db[id].videoURL.nil \/ WellFormedRef(db[id].videoURL.s)

\* C7: for a stored reference that is not empty and is not two non-empty
\* components around one comma, dbVideoToSignedVideo returns the invalid-format
\* error and asks for no presigned URL.
C7_MalformedRejected ==
  /\ served.kind = "get"
  /\ served.video.exists
  /\ ~served.video.videoURL.nil
  /\ served.video.videoURL.s # <<>>
  /\ ~WellFormedRef(served.video.videoURL.s)
  => /\ served.resp.err = Err("invalid bucket/key format")
     /\ Ops(served, "presign") = {}

\* the caller is not authenticated, or the video does not exist, or it is
\* another user's
Refused(l) ==
  \/ l.userID = NoUser
  \/ l.loaded /\ ~l.video.exists
  \/ l.loaded /\ l.video.owner # l.userID

\* C8: a video-ingest request whose caller is not authenticated, whose video
\* does not exist or whose caller is not the owner has returned an error having
\* done nothing but the lookup: no form parsed, no temp file, no rewritten file,
\* no remux, no probe, no put, no update.
C8_RefusedEarly ==
  \A l \in Ingests :
    Refused(l) =>
      /\ l.pc = "done"
      /\ l.resp.code \in {400, 401, 404}
      /\ \A i \in 1..Len(l.log) : l.log[i].op = "get"
      /\ l.tempName = <<>> /\ l.processedPath = <<>>
      /\ l.left = {}

\* C8 happens: a request of an authenticated caller for a video of another
\* user returned
C8_Witness ==
  /\ served.kind = "video"
  /\ served.userID \in Users
  /\ served.video.exists
  /\ served.video.owner # served.userID

\* C9: every reference a video-ingest request hands to UpdateVideo is
\* "bucket,key" of a put that returned success earlier in the request, with
\* content type video/mp4, and the object is in the store.
C9_ReferenceNamesObject ==
  \A l \in Ingests :
    \A i \in Ops(l, "update") :
      \E j \in 1..(i - 1) :
        /\ IsPut(l.log[j]) /\ l.log[j].ok
        /\ l.log[j].ct = "video/mp4"
        /\ Split(l.log[i].key) = <<l.log[j].bucket, l.log[j].key>>
        /\ Object(l.log[j].bucket, l.log[j].key, "video/mp4", 0) \in store

\* C9 happens: a request returned having written its reference, and the
\* record in the store carries it
C9_Witness ==
  /\ served.kind = "video"
  /\ \E i \in Ops(served, "update") :
       /\ served.log[i].ok
       /\ db[served.pathID].videoURL = Ptr(served.log[i].key)

\* C10: the reference a video ingest stores after its put to (b, k) succeeded
\* resolves, by dbVideoToSignedVideo, with one request for a presigned URL, for
\* bucket b and key k and 15 minutes; the handler's own resolution is that one.
C10_RoundTrip ==
  \A l \in Ingests :
    \A i \in Ops(l, "update") :
      l.log[i].ok =>
        LET put == PutsOf(l)[Len(PutsOf(l))]
            stored == UpdatedVideo(l.video, 0, l.log[i].key)
            want == [Ev("presign") EXCEPT !.bucket = put.bucket, !.key = put.key, !.n = 15]
        IN /\ dbVideoToSignedVideo(stored, TRUE).calls = <<want>>
           /\ dbVideoToSignedVideo(stored, TRUE).err = NoErr
           /\ i < Len(l.log)
           /\ [l.log[i+1] EXCEPT !.ok = TRUE] = want

\* C10 happens: a request returned the record with the signed URL of what it put
C10_Witness ==
  /\ served.kind = "video"
  /\ served.resp.code = 200
  /\ served.resp.video.videoURL =
       Ptr(PresignedURL(S3Bucket, served.fileKey, PresignExpiryMinutes))

\* a request to one of the handlers that only read
IsRead(l) == l.kind \in {"get", "retrieve"}

\* C11: a step of handlerVideoGet or handlerVideosRetrieve, whether the
\* resolver succeeds or fails in it, leaves every stored record as it was; the
\* record handlerVideoGet loaded is still the stored one after it returned, and
\* only the copy in the response carries the presigned URL.
C11_ReadsKeepStore ==
  /\ [][(\E r \in Req : VideoGet(r) \/ VideosRetrieve(r)) => db' = db]_vars
  /\ [](served.kind = "get" /\ served.video.exists =>
          /\ GetVideo(served.pathID) = served.video
          /\ served.resp.code = 200 /\ Ops(served, "presign") # {} =>
               /\ served.resp.video.videoURL # served.video.videoURL
               /\ served.resp.video =
                    [served.video EXCEPT !.videoURL = served.resp.video.videoURL])

\* C11 happens: handlerVideoGet answered with a presigned URL and the stored
\* reference is the raw one it read
C11_Witness ==
  /\ served.kind = "get"
  /\ served.resp.code = 200
  /\ Ops(served, "presign") # {}
  /\ db[served.pathID].videoURL = Ptr(<<"b", ",", "k">>)
  /\ served.resp.video.videoURL = Ptr(PresignedURL(<<"b">>, <<"k">>, PresignExpiryMinutes))

\* C12: a step that modifies or deletes a stored record is the last step of a
\* thumbnail-ingest, video-ingest or delete request for that record whose
\* authenticated user is the record's owner; steps of requests of other users
\* and of unauthenticated callers change no record.
C12_OwnerOnly ==
  [][\A id \in VideoIDs :
       db[id].exists /\ db'[id] # db[id] =>
         /\ served'.kind \in {"thumbnail", "video", "legacy", "delete"}
         /\ served'.pathID = id
         /\ served'.userID \in Users
         /\ served'.userID = db[id].owner]_vars

\* C12 happens: a thumbnail ingest by a user who does not own the video was
\* refused after its file was written, and the record is the one it loaded
C12_Witness ==
  /\ served.kind = "thumbnail"
  /\ served.video.exists
  /\ served.userID \in Users
  /\ served.userID # served.video.owner
  /\ served.filePath \in disk
  /\ db[served.pathID] = served.video

\* C13: a thumbnail-ingest request that ends in an error, at whatever stage,
\* has changed no stored record and made no successful update (no step taken
\* while a thumbnail ingest is the only request being served, and after which
\* the request that returned last is a failed thumbnail ingest, changes the
\* store); and the file it created in the asset directory, if it got that far,
\* is on the disk when it ends.
C13_ThumbnailFailure ==
  /\ [][/\ served'.kind = "thumbnail"
        /\ served'.resp.code # 200
        /\ \A r \in Req : req[r].kind \in {"none", "thumbnail"}
        => db' = db]_vars
  /\ [](served.kind = "thumbnail" /\ served.resp.code # 200 =>
          /\ \A i \in Ops(served, "update") : ~served.log[i].ok
          /\ served.video.exists => db[served.pathID] = served.video
          /\ \A i \in Ops(served, "createFile") :
               served.log[i].ok =>
                 served.log[i].key \in served.left /\ served.log[i].key \in disk)

\* C13 happens: a thumbnail ingest by the owner ended with a failed update,
\* its file written
C13_Witness ==
  /\ served.kind = "thumbnail"
  /\ served.resp.code = 500
  /\ Ops(served, "update") # {}
  /\ served.filePath \in disk
  /\ db[served.pathID].thumbnailURL.nil

\* the media types a part can declare
MediaTypes == VideoMediaTypes \cup ThumbMediaTypes

\* C14: a thumbnail upload that declares a media type other than image/jpeg
\* and image/png has returned 400 having only parsed the form: no file in the
\* asset directory, no metadata read, no update; a video upload that declares a
\* media type other than video/mp4 has returned 400 with no temp file, no put
\* and no update.
C14_MediaTypeRejected ==
  \A l \in Traces :
    \A i \in Ops(l, "parse") :
      /\ l.kind = "thumbnail" /\ l.log[i].ct \in MediaTypes \ {"image/jpeg", "image/png"} =>
           /\ l.pc = "done" /\ l.resp.code = 400
           /\ \A j \in 1..Len(l.log) : l.log[j].op = "parse"
           /\ ~l.loaded
           /\ l.filePath = <<>> /\ l.left = {}
      /\ l.kind = "video" /\ l.log[i].ct \in MediaTypes \ {"video/mp4"} =>
           /\ l.pc = "done" /\ l.resp.code = 400
           /\ \A j \in 1..Len(l.log) : l.log[j].op \in {"get", "parse"}
           /\ l.tempName = <<>> /\ l.left = {}

\* C14 happens: a thumbnail upload declared image/gif and was answered
C14_Witness ==
  /\ served.kind = "thumbnail"
  /\ \E i \in Ops(served, "parse") : served.log[i].ct = "image/gif"
  /\ served.resp.msg = "Only JPEG and PNG images are allowed"

\* the request made a successful UpdateVideo call
Updated(l) == \E i \in Ops(l, "update") : l.log[i].ok
\* the reference of its last UpdateVideo call
RefWritten(l) == l.log[CHOOSE i \in Ops(l, "update") : \A j \in Ops(l, "update") : j <= i].key

\* C15: video ingests that are served together get distinct object keys, and
\* the object of every put that succeeded is in the store; an ingest whose
\* update succeeded is answered with success (or with the signing failure, never
\* with a conflict), and the stored video reference is the one written by the
\* ingest that updated last: the one that returned last, as long as the record
\* exists.
C15_LastWriteWins ==
  /\ \A l1 \in Ingests : \A l2 \in Ingests \ {l1} :
       l1.fileKey # <<>> /\ l2.fileKey # <<>> => l1.fileKey # l2.fileKey
  /\ \A l \in Ingests : \A i \in Ops(l, "put") :
       l.log[i].ok => Object(l.log[i].bucket, l.log[i].key, "video/mp4", 0) \in store
  /\ served.kind = "video" /\ Updated(served) =>
       /\ \/ served.resp.code = 200
          \/ served.resp.msg = "Failed to generate signed URL"
       /\ db[served.pathID].exists =>
            db[served.pathID].videoURL = Ptr(RefWritten(served))

\* C15 happens: an ingest by the owner has succeeded while another ingest for
\* the same video, which loaded the record before that one wrote it, has put
\* its object and is about to update
C15_Witness ==
  /\ served.kind = "video" /\ served.resp.code = 200
  /\ \E r \in Req :
       /\ req[r].kind = "video" /\ req[r].pc = "update"
       /\ req[r].pathID = served.pathID
       /\ req[r].userID = served.userID
       /\ req[r].video.videoURL.nil
       /\ req[r].fileKey # served.fileKey
       /\ Object(S3Bucket, req[r].fileKey, "video/mp4", 0) \in store
       /\ Object(S3Bucket, served.fileKey, "video/mp4", 0) \in store
  /\ db[served.pathID].videoURL = Ptr(RefWritten(served))

\* --------------------------------------------------- the prober on its own
\* what ffprobe can report of the first stream: any width and height
WideOutcomes ==
  {[fail |-> f, streams |-> <<>>] : f \in ProbeFailures}
    \cup {[fail |-> "", streams |-> <<>>]}
    \cup {[fail |-> "", streams |-> <<<<w, h>>>>] : w \in 0..MaxWidth, h \in 0..MaxHeight}

\* the owner's upload of a video/mp4 part has been staged in a temp file
InitProbe ==
  /\ db = [id \in VideoIDs |-> IF id = 1 THEN CreateVideo(1, "u1", 0) ELSE NoVideo]
  /\ nextID = 2
  /\ clock = 1
  /\ nextRand = 1
  /\ disk = {TempPath(1)}
  /\ store = {}
  /\ served = Idle
  /\ req = [r \in Req |->
              IF r = 1
                THEN StageTemp(UploadForm(UploadAuth("video", 1, "u1"), "video/mp4"),
                               1, TRUE, "remux")
                ELSE Off]
  /\ budget = 0

ProbeAny(r) == Process(r, WideOutcomes)

NextProbe == \E r \in Req : ProbeAny(r)

SpecProbe == InitProbe /\ [][NextProbe]_vars

Dist(a, b) == IF a < b THEN b - a ELSE a - b

\* C16: for positive width and height the classification is landscape iff
\* |width/height - 16/9| <= 1/10, else portrait iff |width/height - 9/16| <= 1/10,
\* else other (multiplied out: 10 |9w - 16h| <= 9h, 10 |16w - 9h| <= 16h);
\* no streams, or a first stream of width or height 0, is "other" with no error;
\* a probe that fails or whose output does not parse gives an error and no
\* classification, and ends the request.
C16_Classification ==
  \A l \in Ingests : \A i \in Ops(l, "probe") :
    LET e == l.log[i]
        sized == e.streams # <<>> /\ e.streams[1][1] > 0 /\ e.streams[1][2] > 0
        w == e.streams[1][1]
        h == e.streams[1][2]
        nearLandscape == 10 * Dist(9 * w, 16 * h) <= 9 * h
        nearPortrait == 10 * Dist(16 * w, 9 * h) <= 16 * h
    IN /\ e.ok /\ sized =>
            /\ e.ct = "landscape" <=> nearLandscape
            /\ e.ct = "portrait" <=> ~nearLandscape /\ nearPortrait
            /\ e.ct = "other" <=> ~nearLandscape /\ ~nearPortrait
       /\ e.ok /\ ~sized => e.ct = "other"
       /\ e.ok => e.err = NoErr /\ l.fileKey # <<>>
       /\ ~e.ok =>
            /\ e.ct = ""
            /\ e.err \in {Err("ffprobe failed"), Err("failed to parse ffprobe output")}
            /\ l.fileKey = <<>>
            /\ l.pc = "done" /\ l.resp.code = 500 /\ l.resp.err = e.err

\* C16 happens: a probe reported 169 x 90, the upper edge of the landscape
\* range, and the file was classified landscape
C16_Witness ==
  \E l \in Ingests : \E i \in Ops(l, "probe") :
    l.log[i].streams = <<<<169, 90>>>> /\ l.log[i].ct = "landscape"

\* the one call of the kind op in the trace of l
TheCall(l, op) == l.log[CHOOSE i \in Ops(l, op) : TRUE]

\* C17: after a video ingest answered with success, the record in the
\* response carries the presigned URL the signer returned, not the stored
\* string, and the stored record carries "bucket,key" with key =
\* classification "/" random key ".mp4", the classification being what the
\* probe of the rewritten file gave: landscape, portrait or other.
C17_SignedResponse ==
  served.kind = "video" /\ served.resp.code = 200 =>
    LET class == TheCall(served, "probe").ct
        key == <<class, "/">> \o TheCall(served, "rand").key \o <<".mp4">>
        raw == S3Bucket \o <<",">> \o key
        signed == PresignedURL(S3Bucket, key, 15)
    IN /\ class \in {"landscape", "portrait", "other"}
       /\ TheCall(served, "probe").key = served.tempName \o <<".processing">>
       /\ TheCall(served, "remux").key = TheCall(served, "probe").key
       /\ RefWritten(served) = raw
       /\ db[served.pathID].videoURL = Ptr(raw)
       /\ TheCall(served, "presign").ok
       /\ served.resp.video.videoURL = Ptr(signed)
       /\ signed # raw
       /\ served.resp.video = [db[served.pathID] EXCEPT !.videoURL = Ptr(signed)]

\* C17 happens: an ingest of a file probed as portrait was answered with success
C17_Witness ==
  /\ served.kind = "video"
  /\ served.resp.code = 200
  /\ TheCall(served, "probe").ct = "portrait"
  /\ db[served.pathID].videoURL = Ptr(S3Bucket \o <<",", "portrait", "/">> \o served.randomString \o <<".mp4">>)

\* a call of the kind op succeeded before the i-th call of l
Before(l, i, op) == \E j \in 1..(i - 1) : l.log[j].op = op /\ l.log[j].ok

\* C18: in a video ingest the remux comes right after the successful copy
\* into the temp file, the probe is of the path a successful remux returned, a
\* put comes only after a successful remux and a successful probe, an update
\* only after a successful put; a failed remux or probe is the last call of
\* the request, which returned an error with no put and no update.
C18_StepOrder ==
  \A l \in Ingests : \A i \in 1..Len(l.log) :
    LET e == l.log[i] IN
    /\ e.op = "remux" =>
         /\ Before(l, i, "createTemp")
         /\ l.log[i-1].op = "copy" /\ l.log[i-1].ok
    /\ e.op = "probe" =>
         \E j \in 1..(i - 1) :
           l.log[j].op = "remux" /\ l.log[j].ok /\ l.log[j].key = e.key
    /\ e.op = "put" => Before(l, i, "remux") /\ Before(l, i, "probe")
    /\ e.op = "update" => Before(l, i, "put")
    /\ e.op \in {"remux", "probe"} /\ ~e.ok =>
         /\ i = Len(l.log)
         /\ l.pc = "done" /\ l.resp.code = 500
         /\ Ops(l, "put") = {} /\ Ops(l, "update") = {}

\* C18 happens: an ingest returned after its probe failed
C18_Witness ==
  /\ served.kind = "video"
  /\ \E i \in Ops(served, "probe") : ~served.log[i].ok
  /\ \E i \in Ops(served, "remux") : served.log[i].ok
  /\ served.resp.msg = "Failed to analyze video"

\* C19: the step in which a video ingest completes changes, of a stored
\* record, only the video reference and the updated timestamp, and the step in
\* which a thumbnail ingest completes only the thumbnail reference and the
\* updated timestamp, however the two are interleaved.
C19_OwnFieldOnly ==
  [][\A id \in VideoIDs :
       db[id].exists /\ db'[id].exists /\ db'[id] # db[id] =>
         /\ served'.kind = "video" =>
              db'[id] = [db[id] EXCEPT !.videoURL = db'[id].videoURL,
                                       !.updatedAt = db'[id].updatedAt]
         /\ served'.kind = "thumbnail" =>
              db'[id] = [db[id] EXCEPT !.thumbnailURL = db'[id].thumbnailURL,
                                       !.updatedAt = db'[id].updatedAt]]_vars

\* C20: after a video ingest answered with an error, the stored record of
\* its video is the one the request loaded at its start.
C20_ErrorKeepsRecord ==
  served.kind = "video" /\ served.resp.code # 200 /\ served.video.exists =>
    db[served.pathID] = served.video

\* a reference the resolver lets through: none, or the empty string
NullRef(ref) == ref.nil \/ ref.s = <<>>

\* the listing that returned last got the records of its user from the store
Listed ==
  /\ served.kind = "retrieve"
  /\ \E i \in Ops(served, "list") : served.log[i].ok

\* C21: dbVideoToSignedVideo returns a record whose video reference is null or
\* the empty string as it is, with no error and no request for a presigned
\* URL; so a listing for a user whose records all have such references answers
\* 200 with these records, and a listing answers 500 with no record at all once
\* one of the user's records has a malformed reference or a presign request
\* failed, that request being the last one made.
C21_NullPassThrough ==
  /\ \A id \in DOMAIN db : \A signOk \in BOOLEAN :
       db[id].exists /\ NullRef(db[id].videoURL) =>
         dbVideoToSignedVideo(db[id], signOk) = [video |-> db[id], err |-> NoErr, calls |-> <<>>]
  /\ Listed =>
       LET mine == GetVideos(served.userID, 1)
           presigns == Ops(served, "presign")
       IN /\ (\A i \in 1..Len(mine) : NullRef(mine[i].videoURL)) =>
               /\ served.resp.code = 200
               /\ served.resp.videos = mine
               /\ presigns = {}
          /\ (\/ \E i \in 1..Len(mine) :
                    ~NullRef(mine[i].videoURL) /\ Len(Split(mine[i].videoURL.s)) # 2
              \/ \E j \in presigns : ~served.log[j].ok) =>
               /\ served.resp.code = 500
               /\ served.resp.msg = "Failed to generate signed URLs"
               /\ served.resp.videos = <<>>
               /\ \A j \in presigns : ~served.log[j].ok => j = Len(served.log)

\* a listing for a user with two records, the first with the empty reference,
\* the second with a reference without a comma, has answered 500
C21_Witness ==
  /\ Listed
  /\ LET mine == GetVideos(served.userID, 1)
     IN /\ Len(mine) = 2
        /\ mine[1].videoURL = Ptr(<<>>)
        /\ mine[2].videoURL = Ptr(<<"b">>)
  /\ served.resp.code = 500
  /\ Ops(served, "presign") = {}

\* a video ingest in flight that has staged its upload
Staging(l) == l.kind = "video" /\ l.pc # "done" /\ l.tempName # <<>>

\* its staged temp path and its rewritten path
Paths(l) == IF l.tempName = <<>> THEN {} ELSE {l.tempName, OutputPath(l.tempName)}

\* the paths of the files a request names in its calls so far
Touched(l) == {l.log[i].key : i \in Ops(l, "remux") \cup Ops(l, "open") \cup Ops(l, "probe")}

\* C22: two video ingests in flight never have a staged temp path or a
\* rewritten path in common, a video ingest rewrites, opens, probes and uploads
\* only its own rewritten file, and the files a step removes are among the
\* staged and rewritten paths of the request that returns in that step, never
\* among those of a video ingest still in flight.
C22_TempExclusive ==
  /\ [](\A r \in Req : Staging(req[r]) =>
          /\ \A q \in Req \ {r} : Staging(req[q]) => Paths(req[r]) \cap Paths(req[q]) = {}
          /\ Touched(req[r]) \subseteq {OutputPath(req[r].tempName)}
          /\ req[r].processedPath \in {<<>>, OutputPath(req[r].tempName)})
  /\ [][disk \ disk' # {} =>
          /\ \E r \in Req : /\ req[r].pc # "idle" /\ req'[r] = Idle
                           /\ served'.tempName = req[r].tempName
                           /\ disk \ disk' \subseteq Paths(req[r])
          /\ \A r \in Req : Staging(req'[r]) => Paths(req'[r]) \cap (disk \ disk') = {}]_vars

\* a video ingest has returned and its staged upload is gone, while another
\* one, staged meanwhile, is still in flight with its rewritten file on the disk
C22_Witness ==
  /\ served.kind = "video" /\ served.tempName # <<>> /\ served.tempName \notin disk
  /\ \E r \in Req :
       /\ Staging(req[r])
       /\ req[r].processedPath # <<>> /\ req[r].processedPath \in disk
       /\ req[r].tempName \in disk
       /\ \E i \in Ops(served, "createTemp") : served.log[i].ok

====
